---- MODULE Spec2Model ----
(***************************************************************************)
(* Email confirmation of a registration (confirm_emails_utils.py).         *)
(*                                                                         *)
(* The model covers the three snippets of the source: token_utils.py       *)
(* (generate_confirmation_token, confirm_token), email_utils.py            *)
(* (send_confirmation_email) and main.py (register, confirm_email and the  *)
(* module-level fake_users_db).  The handlers are asyncio coroutines: a    *)
(* handler runs without interruption up to an await that really suspends.  *)
(* The only such await is the one on send_confirmation_email in register,  *)
(* so register is two atomic steps around it and confirm_email is one.     *)
(***************************************************************************)
EXTENDS Integers, FiniteSets, Sequences, TLC

VARIABLES
    fake_users_db,  \* main.py: email -> [email, password, is_active]
    now,            \* the wall clock read by the serializer, in seconds
    req             \* the requests, numbered in arrival order

vars == <<fake_users_db, now, req>>

(***************************************************************************)
(* Bounds of the model.                                                    *)
(***************************************************************************)
\* Number of HTTP requests (register or confirm) served in one behaviour.
MaxRequests == 3

(***************************************************************************)
(* Constants of the program.                                               *)
(***************************************************************************)
SECRET_KEY == "your-secret-key"
CONFIRMATION_SALT == "email-confirmation-salt"
OTHER_SALT == "another-purpose-salt"
\* Default of confirm_token's parameter expiration.
expiration == 3600

Emails == {"alice@x.com", "bob@x.com"}
Passwords == {"pw1", "pw2"}
Requests == 1..MaxRequests
\* The instants at which the clock is observed: a token issued at 0 is then
\* of age expiration (the last valid age) and of age expiration + 1; a token
\* issued at expiration is fresh at expiration + 1.
ClockInstants == {0, expiration, expiration + 1}

(***************************************************************************)
(* Tokens.  URLSafeTimedSerializer.dumps yields                            *)
(*     b64(json(payload)) "." b64(timestamp) "." b64(HMAC)                 *)
(* where the HMAC is taken over the first two parts under a key derived    *)
(* from the secret key and the salt.  A token is modelled by its three     *)
(* parts; the HMAC is kept symbolic, as the tuple of what it was computed  *)
(* from, so that two signatures are equal exactly when key, salt, payload  *)
(* and timestamp all are.  A string without the separators carries no      *)
(* signature part.                                                         *)
(*                                                                         *)
(* The HMAC is SHA-1, 20 bytes, written as 27 base64 characters: the last  *)
(* character carries 4 bits of the HMAC and 2 bits that belong to no byte. *)
(* dumps writes these two bits as 0; pad is their value in the string.     *)
(* loads decodes the signature part (urlsafe_b64decode, which drops the    *)
(* two bits) before it compares it, so it never reads pad.                 *)
(***************************************************************************)
NoSig == [key |-> "", salt |-> "", payload |-> "", ts |-> 0]
NoToken == [payload |-> "", ts |-> 0, sig |-> NoSig, pad |-> 0]
MalformedToken == [payload |-> "garbage", ts |-> 0, sig |-> NoSig, pad |-> 0]
\* The values of the two unused bits of the signature's last character.
SigPads == {0, 1, 2, 3}

Sign(key, salt, payload, ts) ==
    [key |-> key, salt |-> salt, payload |-> payload, ts |-> ts]

\* URLSafeTimedSerializer(key).dumps(payload, salt=salt) at clock value t.
dumps(key, payload, salt, t) ==
    [payload |-> payload, ts |-> t, sig |-> Sign(key, salt, payload, t),
     pad |-> 0]

\* A variant of line 34 whose salt is not the one line 41 verifies with.
generate_confirmation_token_OtherSalt(email, t) ==
    dumps(SECRET_KEY, email, OTHER_SALT, t)

\* token_utils.py: generate_confirmation_token(email) at clock value t.
generate_confirmation_token(email, t) ==
    dumps(SECRET_KEY, email, CONFIRMATION_SALT, t)

Ok(value) == [ok |-> TRUE, value |-> value, err |-> ""]
Raise(err) == [ok |-> FALSE, value |-> "", err |-> err]

\* A variant of loads that verifies the signature under whatever salt the
\* token was signed with.
loads_IgnoresSalt(key, token, salt, max_age, t) ==
    IF token.sig = NoSig
        THEN Raise("BadSignature")
    ELSE IF token.sig # Sign(key, token.sig.salt, token.payload, token.ts)
        THEN Raise("BadSignature")
    ELSE IF t - token.ts > max_age
        THEN Raise("SignatureExpired")
    ELSE IF t - token.ts < 0
        THEN Raise("SignatureExpired")
    ELSE Ok(token.payload)

\* A variant of loads that reads the payload without comparing the
\* signature.
loads_NoSignatureCheck(key, token, salt, max_age, t) ==
    IF token.sig = NoSig
        THEN Raise("BadSignature")
    ELSE IF t - token.ts > max_age
        THEN Raise("SignatureExpired")
    ELSE IF t - token.ts < 0
        THEN Raise("SignatureExpired")
    ELSE Ok(token.payload)

\* A variant of loads that already refuses a token of age max_age.
loads_OffByOne(key, token, salt, max_age, t) ==
    IF token.sig = NoSig
        THEN Raise("BadSignature")
    ELSE IF token.sig # Sign(key, salt, token.payload, token.ts)
        THEN Raise("BadSignature")
    ELSE IF t - token.ts >= max_age
        THEN Raise("SignatureExpired")
    ELSE IF t - token.ts < 0
        THEN Raise("SignatureExpired")
    ELSE Ok(token.payload)

\* URLSafeTimedSerializer(key).loads(token, salt=salt, max_age=max_age) at
\* clock value t: the signature is checked first, the age second.
loads(key, token, salt, max_age, t) ==
    IF token.sig = NoSig
        THEN Raise("BadSignature")
    ELSE IF token.sig # Sign(key, salt, token.payload, token.ts)
        THEN Raise("BadSignature")
    ELSE IF t - token.ts > max_age
        THEN Raise("SignatureExpired")
    ELSE IF t - token.ts < 0
        THEN Raise("SignatureExpired")
    ELSE Ok(token.payload)

\* Python's None, as returned by confirm_token.
None == "None"

\* token_utils.py: confirm_token(token, expiration) at clock value t; every
\* exception of loads is caught and None is returned.
confirm_token(token, max_age, t) ==
    LET r == loads(SECRET_KEY, token, CONFIRMATION_SALT, max_age, t)
    IN  IF r.ok THEN r.value ELSE None

\* main.py line 108: "not email" holds of None and of the empty string.
Falsy(email) == email = None \/ email = ""

(***************************************************************************)
(* The user store: the module-level dict fake_users_db of main.py.         *)
(***************************************************************************)
\* A variant of line 96 that looks only for activated users.
UserExists_ActiveOnly(db, email) ==
    /\ email \in DOMAIN db
    /\ db[email].is_active

\* main.py line 96: user.email in fake_users_db
UserExists(db, email) == email \in DOMAIN db

\* A variant of line 102 that stores the user as already active.
NewUser_Active(email, password) ==
    [email |-> email, password |-> password, is_active |-> TRUE]

\* main.py line 102: the dict stored for a new user.
NewUser(email, password) ==
    [email |-> email, password |-> password, is_active |-> FALSE]

\* main.py line 102: fake_users_db[user.email] = {...}
StoreUser(db, email, password) ==
    [e \in DOMAIN db \cup {email} |->
        IF e = email THEN NewUser(email, password) ELSE db[e]]

\* A variant of line 111 that activates every record of the store.
Activate_All(db, email) ==
    [e \in DOMAIN db |-> [db[e] EXCEPT !.is_active = TRUE]]

\* A variant of line 111 that flips the flag instead of setting it.
Activate_Toggle(db, email) ==
    [db EXCEPT ![email] = [@ EXCEPT !.is_active = ~@]]

\* main.py line 111: fake_users_db[email]["is_active"] = True
Activate(db, email) ==
    [db EXCEPT ![email] = [@ EXCEPT !.is_active = TRUE]]

\* main.py line 108: the condition under which confirm_email raises.
ConfirmRejects(db, email) == Falsy(email) \/ ~UserExists(db, email)

\* A variant of lines 107-111 that activates the user named in the token
\* before the token has been verified.
ConfirmStore_ActivateUnverified(db, token, t) ==
    IF UserExists(db, token.payload) THEN Activate(db, token.payload) ELSE db

\* A variant of lines 107-111 that creates the record of a verified identity
\* that has none, instead of refusing it.
ConfirmStore_Upsert(db, token, t) ==
    LET email == confirm_token(token, expiration, t)
    IN  IF Falsy(email) THEN db
        ELSE [e \in DOMAIN db \cup {email} |->
                IF e # email THEN db[e]
                ELSE [email |-> email,
                      password |-> IF e \in DOMAIN db THEN db[e].password
                                   ELSE "",
                      is_active |-> TRUE]]

\* main.py lines 107-111: what confirm_email leaves in the store when it is
\* called with token at clock value t.
ConfirmStore(db, token, t) ==
    LET email == confirm_token(token, expiration, t)
    IN  IF ConfirmRejects(db, email) THEN db ELSE Activate(db, email)

\* main.py lines 107-112: the HTTP status confirm_email answers with.
ConfirmStatus(db, token, t) ==
    LET email == confirm_token(token, expiration, t)
    IN  IF ConfirmRejects(db, email) THEN 400 ELSE 200

\* A variant of lines 107-112 that tells the client why the token was
\* refused.
ConfirmDetail_LeaksReason(db, token, t) ==
    LET r == loads(SECRET_KEY, token, CONFIRMATION_SALT, expiration, t)
    IN  IF ~r.ok THEN r.err
        ELSE IF ConfirmRejects(db, r.value) THEN "unknown user"
        ELSE "registration confirmed"

\* main.py lines 107-112: the text of confirm_email's answer, the detail of
\* the HTTPException of line 109 or the message of line 112.
ConfirmDetail(db, token, t) ==
    LET email == confirm_token(token, expiration, t)
    IN  IF ConfirmRejects(db, email) THEN "invalid or expired token"
        ELSE "registration confirmed"

(***************************************************************************)
(* Requests.  A request is idle until it arrives.  A register request      *)
(* that has passed the check of line 96 is suspended at the await of line  *)
(* 100 (pc = "await_send") until aiosmtplib.send returns or raises; the    *)
(* transport is outside the program and may do either, or neither.         *)
(* status is the HTTP status of the response, 0 before there is one, and   *)
(* detail the text the client reads in it (rendered in English here).      *)
(***************************************************************************)
IdleRequest ==
    [kind |-> "idle", pc |-> "idle", email |-> "", password |-> "",
     token |-> NoToken, status |-> 0, detail |-> ""]

\* Requests arrive in the order of their numbers.
MayArrive(p) ==
    /\ req[p].pc = "idle"
    /\ IF p = 1 THEN TRUE ELSE req[p - 1].pc # "idle"

\* The tokens register has handed to aiosmtplib.send so far.
IssuedTokens ==
    {req[p].token : p \in {q \in Requests : req[q].token # NoToken
                                            /\ req[q].kind = "register"}}

\* The strings that differ from token t in one character: in the payload
\* part, in the timestamp part, in the signature part (in bits of the HMAC,
\* or in the unused bits of its last character only), or in a separator.
SingleByteAlterations(t) ==
    {[t EXCEPT !.payload = e] : e \in (Emails \cup {"garbage"}) \ {t.payload}}
    \cup {[t EXCEPT !.ts = x] : x \in ClockInstants \ {t.ts}}
    \cup {[t EXCEPT !.sig = [t.sig EXCEPT !.key = "altered"]]}
    \cup {[t EXCEPT !.pad = k] : k \in SigPads \ {t.pad}}
    \cup {MalformedToken}

\* What a client may present to /confirm: a token taken from a mail; such a
\* token with its payload replaced by another address, or with the last
\* character of its signature replaced by one that differs in the unused
\* bits only; a token for the same payload and time signed under the secret
\* key with another salt; and a string that is no token at all.
PresentedTokens ==
    IssuedTokens
    \cup {[t EXCEPT !.payload = e] : t \in IssuedTokens, e \in Emails}
    \cup {[t EXCEPT !.pad = 1] : t \in IssuedTokens}
    \cup {dumps(SECRET_KEY, t.payload, OTHER_SALT, t.ts) : t \in IssuedTokens}
    \cup {MalformedToken}

Init ==
    /\ fake_users_db = << >>
    /\ now = 0
    /\ req = [p \in Requests |-> IdleRequest]

\* main.py lines 95-97: register finds the user and raises HTTPException 400.
RegisterReject(p, email, password) ==
    /\ MayArrive(p)
    /\ UserExists(fake_users_db, email)
    /\ req' = [req EXCEPT ![p] =
                [IdleRequest EXCEPT !.kind = "register", !.pc = "done",
                    !.email = email, !.password = password, !.status = 400,
                    !.detail = "user already exists"]]
    /\ UNCHANGED <<fake_users_db, now>>

\* main.py lines 95-100 and email_utils.py lines 56-66: register generates
\* the token, builds the message, hands it to aiosmtplib.send and suspends.
RegisterCall(p, email, password) ==
    /\ MayArrive(p)
    /\ ~UserExists(fake_users_db, email)
    /\ req' = [req EXCEPT ![p] =
                [IdleRequest EXCEPT !.kind = "register", !.pc = "await_send",
                    !.email = email, !.password = password,
                    !.token = generate_confirmation_token(email, now)]]
    /\ UNCHANGED <<fake_users_db, now>>

\* main.py lines 100-103: aiosmtplib.send returns, the await completes, the
\* user is stored and register answers 200.
RegisterResume(p) ==
    /\ req[p].pc = "await_send"
    /\ fake_users_db' = StoreUser(fake_users_db, req[p].email, req[p].password)
    /\ req' = [req EXCEPT ![p].pc = "done", ![p].status = 200,
                           ![p].detail = "check your mail"]
    /\ UNCHANGED now

\* main.py line 100 and email_utils.py lines 66-73: aiosmtplib.send raises,
\* the exception leaves register and the server answers 500.
RegisterAbort(p) ==
    /\ req[p].pc = "await_send"
    /\ req' = [req EXCEPT ![p].pc = "done", ![p].status = 500,
                           ![p].detail = "Internal Server Error"]
    /\ UNCHANGED <<fake_users_db, now>>

\* main.py lines 106-112: confirm_email, which never suspends.
ConfirmEmail(p, token) ==
    /\ MayArrive(p)
    /\ fake_users_db' = ConfirmStore(fake_users_db, token, now)
    /\ req' = [req EXCEPT ![p] =
                [IdleRequest EXCEPT !.kind = "confirm", !.pc = "done",
                    !.token = token,
                    !.status = ConfirmStatus(fake_users_db, token, now),
                    !.detail = ConfirmDetail(fake_users_db, token, now)]]
    /\ UNCHANGED now

\* Time passes between two steps of the handlers.
Tick ==
    /\ \E t \in ClockInstants : t > now /\ now' = t
    /\ UNCHANGED <<fake_users_db, req>>

Next ==
    \/ \E p \in Requests, e \in Emails, pw \in Passwords :
            RegisterReject(p, e, pw)
    \/ \E p \in Requests, e \in Emails, pw \in Passwords :
            RegisterCall(p, e, pw)
    \/ \E p \in Requests : RegisterResume(p)
    \/ \E p \in Requests : RegisterAbort(p)
    \/ \E p \in Requests : \E token \in PresentedTokens :
            ConfirmEmail(p, token)
    \/ Tick

Spec == Init /\ [][Next]_vars

(***************************************************************************)
(* Properties.                                                             *)
(***************************************************************************)
RegisterRequests == {p \in Requests : req[p].kind = "register"}
ConfirmRequests == {p \in Requests : req[p].kind = "confirm"}

\* C1: two register calls for the same identity that overlap at the await
\* on the mail never both succeed: no two register requests for one email
\* have both been answered 200.
C1_ConcurrentRegisterOneRejected ==
    \A p, q \in RegisterRequests :
        (p # q /\ req[p].email = req[q].email)
            => ~(req[p].status = 200 /\ req[q].status = 200)

\* C2: the active flag of a record only ever goes from false to true: a
\* record that is active is still there and still active after every step.
C2_ActiveNeverFlipsBack ==
    [][\A e \in DOMAIN fake_users_db :
            fake_users_db[e].is_active
                => /\ e \in DOMAIN fake_users_db'
                   /\ fake_users_db'[e].is_active]_vars

\* C3: whenever a confirmation token for an identity has been generated and
\* handed to the mail transport, a record for that identity is in the store.
C3_TokenOnlyForExistingRecord ==
    \A t \in IssuedTokens : t.payload \in DOMAIN fake_users_db

\* C4: a register call that arrives when a record for its identity exists,
\* active or not, is answered 400, generates and sends no token, and leaves
\* the whole store as it was.
C4_RegisterExistingRejected ==
    [][\A p \in Requests :
            (/\ req[p].pc = "idle"
             /\ req'[p].kind = "register"
             /\ req'[p].email \in DOMAIN fake_users_db)
                => /\ req'[p].pc = "done"
                   /\ req'[p].status = 400
                   /\ req'[p].token = NoToken
                   /\ IssuedTokens' = IssuedTokens
                   /\ fake_users_db' = fake_users_db]_vars

\* A register call was rejected for an identity that an earlier confirm call
\* had activated.
C4_Witness ==
    \E p \in RegisterRequests, q \in ConfirmRequests :
        /\ q < p
        /\ req[q].status = 200
        /\ req[q].token.payload = req[p].email
        /\ req[p].status = 400
        /\ fake_users_db[req[p].email].is_active

\* C5: when the mail delivery of a register call fails, the registration is
\* left pending: after the call a record for the identity exists and is not
\* active.
C5_MailFailureLeavesPending ==
    [][\A p \in Requests :
            (req[p].pc = "await_send" /\ req'[p].status = 500)
                => /\ req[p].email \in DOMAIN fake_users_db'
                   /\ ~fake_users_db'[req[p].email].is_active]_vars

\* C6: register does not wait for the mail transport: a register call that
\* has handed its token to the transport has stored the record and answered
\* 200, whatever the transport does afterwards.
C6_RegisterDoesNotWaitForMail ==
    \A p \in RegisterRequests :
        req[p].token # NoToken
            => /\ req[p].status = 200
               /\ req[p].email \in DOMAIN fake_users_db

\* C7: the step in which register succeeds leaves in the store one record
\* for the identity, with the supplied credential and not active, adds no
\* other identity and changes no other record.
C7_RegisterSuccessCreatesPending ==
    [][\A p \in Requests :
            (req[p].pc = "await_send" /\ req'[p].status = 200)
                => /\ DOMAIN fake_users_db' =
                        DOMAIN fake_users_db \cup {req[p].email}
                   /\ fake_users_db'[req[p].email] =
                        [email |-> req[p].email,
                         password |-> req[p].password,
                         is_active |-> FALSE]
                   /\ \A o \in DOMAIN fake_users_db \ {req[p].email} :
                        fake_users_db'[o] = fake_users_db[o]]_vars

\* A register call has succeeded while another identity was registered, and
\* its record holds its credential and is pending.
C7_Witness ==
    \E p \in RegisterRequests :
        /\ req[p].status = 200
        /\ Cardinality(DOMAIN fake_users_db) = 2
        /\ fake_users_db[req[p].email] =
            [email |-> req[p].email, password |-> req[p].password,
             is_active |-> FALSE]

\* C8: a confirm call that fails, whatever the reason, leaves the user store
\* exactly as it was.
C8_FailedConfirmKeepsStore ==
    [][\A p \in Requests :
            (/\ req[p].pc = "idle"
             /\ req'[p].kind = "confirm"
             /\ req'[p].status = 400)
                => fake_users_db' = fake_users_db]_vars

\* A confirm call has failed with a token that register issued for an
\* identity whose record is in the store, still pending, and the token is
\* now too old.
C8_Witness ==
    \E p \in ConfirmRequests :
        /\ req[p].status = 400
        /\ req[p].token \in IssuedTokens
        /\ now - req[p].token.ts > expiration
        /\ req[p].token.payload \in DOMAIN fake_users_db
        /\ ~fake_users_db[req[p].token.payload].is_active

\* C9: every confirm call that presents a token issued by register, not yet
\* expired, for an identity that has a record, succeeds, and after it the
\* record is active and otherwise as before, as is the rest of the store.
C9_ConfirmReplayIdempotent ==
    [][\A p \in Requests :
            (/\ req[p].pc = "idle"
             /\ req'[p].kind = "confirm"
             /\ req'[p].token \in IssuedTokens
             /\ now - req'[p].token.ts <= expiration
             /\ req'[p].token.payload \in DOMAIN fake_users_db)
                => /\ req'[p].status = 200
                   /\ DOMAIN fake_users_db' = DOMAIN fake_users_db
                   /\ fake_users_db'[req'[p].token.payload].is_active
                   /\ fake_users_db'[req'[p].token.payload].email =
                        fake_users_db[req'[p].token.payload].email
                   /\ fake_users_db'[req'[p].token.payload].password =
                        fake_users_db[req'[p].token.payload].password
                   /\ \A o \in DOMAIN fake_users_db \ {req'[p].token.payload} :
                        fake_users_db'[o] = fake_users_db[o]]_vars

\* Two confirm calls have presented the same issued token, both succeeded,
\* and the record is active.
C9_Witness ==
    \E p, q \in ConfirmRequests :
        /\ p # q
        /\ req[p].token = req[q].token
        /\ req[p].token \in IssuedTokens
        /\ req[p].status = 200
        /\ req[q].status = 200
        /\ fake_users_db[req[p].token.payload].is_active

\* The values of max_age the expiry boundary is checked for.
MaxAges == {0, 1, expiration - 1, expiration, expiration + 1}

\* C10: for every token register has generated and every max_age a,
\* confirm_token returns the identity while now - issued_at <= a, the age a
\* itself included, and fails, because the serializer finds the token
\* expired, once now - issued_at > a.
C10_ExpiryBoundary ==
    \A t \in IssuedTokens, a \in MaxAges :
        IF now - t.ts <= a
            THEN confirm_token(t, a, now) = t.payload
            ELSE /\ confirm_token(t, a, now) = None
                 /\ loads(SECRET_KEY, t, CONFIRMATION_SALT, a, now).err
                        = "SignatureExpired"

\* A confirm call has succeeded with a token that was exactly expiration
\* seconds old: the call came after a register call that arrived at the
\* present clock value.
C10_Witness ==
    \E r \in RegisterRequests, p \in ConfirmRequests :
        /\ r < p
        /\ req[r].token # NoToken
        /\ req[r].token.ts = now
        /\ req[p].token \in IssuedTokens
        /\ now - req[p].token.ts = expiration
        /\ req[p].status = 200

\* C11: a token that register has just generated for an identity verifies,
\* at the same clock value and under every max_age, to exactly the identity
\* that was given to register.
C11_RoundTrip ==
    \A p \in RegisterRequests, a \in MaxAges :
        (req[p].token # NoToken /\ req[p].token.ts = now)
            => confirm_token(req[p].token, a, now) = req[p].email

\* A register call has just generated its token, at a clock value other
\* than 0, and has not resumed yet.
C11_Witness ==
    \E p \in RegisterRequests :
        /\ req[p].pc = "await_send"
        /\ req[p].token.ts = now
        /\ now > 0
        /\ req[p].email \in Emails

\* C12: a confirm call with a token that register issued, not expired, for
\* an identity that has no record is answered 400, and afterwards the store
\* is as before: no record for the identity is created or activated.
C12_UnknownIdentityRejected ==
    [][\A p \in Requests :
            (/\ req[p].pc = "idle"
             /\ req'[p].kind = "confirm"
             /\ req'[p].token \in IssuedTokens
             /\ now - req'[p].token.ts <= expiration
             /\ req'[p].token.payload \notin DOMAIN fake_users_db)
                => /\ req'[p].status = 400
                   /\ req'[p].token.payload \notin DOMAIN fake_users_db'
                   /\ fake_users_db' = fake_users_db]_vars

\* A confirm call with an issued, unexpired token was answered 400 and the
\* identity of the token has no record.
C12_Witness ==
    \E p \in ConfirmRequests :
        /\ req[p].status = 400
        /\ req[p].token \in IssuedTokens
        /\ now - req[p].token.ts <= expiration
        /\ req[p].token.payload \notin DOMAIN fake_users_db

\* C13: once a register call has succeeded, a confirm call that presents the
\* token of that call within expiration succeeds, and after it the record
\* of the identity is active.
C13_EndToEnd ==
    [][\A p, r \in Requests :
            (/\ req[p].pc = "idle"
             /\ req'[p].kind = "confirm"
             /\ req[r].kind = "register"
             /\ req[r].status = 200
             /\ req'[p].token = req[r].token
             /\ now - req[r].token.ts <= expiration)
                => /\ req'[p].status = 200
                   /\ req[r].email \in DOMAIN fake_users_db'
                   /\ fake_users_db'[req[r].email].is_active]_vars

\* A register call succeeded, a later confirm call presented its token and
\* succeeded, and the record is active.
C13_Witness ==
    \E r \in RegisterRequests, p \in ConfirmRequests :
        /\ r < p
        /\ req[r].status = 200
        /\ req[p].token = req[r].token
        /\ req[p].status = 200
        /\ fake_users_db[req[r].email].is_active

\* A token signed under the secret key for another purpose, that is, with a
\* salt other than the confirmation salt.
OtherPurposeToken(token) ==
    token.sig = Sign(SECRET_KEY, OTHER_SALT, token.payload, token.ts)

C15_AlteredTokenRejected ==
    \A t \in IssuedTokens, a \in MaxAges :
        \A u \in SingleByteAlterations(t) :
            /\ confirm_token(u, a, now) = None
            /\ loads(SECRET_KEY, u, CONFIRMATION_SALT, a, now).err
                    = "BadSignature"

\* C16: all confirm calls that failed, whatever made the token fail, were
\* given the same answer: the same status and the same detail.
C16_FailuresIndistinguishable ==
    \A p, q \in ConfirmRequests :
        (req[p].status = 400 /\ req[q].status = 400)
            => req[p].detail = req[q].detail

\* Two confirm calls have failed, one with a string that is no token, one
\* with a correctly signed token that is now expired.
C16_Witness ==
    \E p, q \in ConfirmRequests :
        /\ req[p].status = 400
        /\ req[q].status = 400
        /\ req[p].token = MalformedToken
        /\ req[q].token \in IssuedTokens
        /\ req[q].token.payload \in DOMAIN fake_users_db
        /\ loads(SECRET_KEY, req[q].token, CONFIRMATION_SALT, expiration,
                 now).err = "SignatureExpired"

\* C17: whenever a confirm call activates a record, the credential in the
\* record is the credential given to every register call that generated the
\* presented token.
C17_ActivatedCredentialIsTokenOwners ==
    [][\A p, r \in Requests :
            (/\ req[p].pc = "idle"
             /\ req'[p].kind = "confirm"
             /\ req'[p].status = 200
             /\ req[r].kind = "register"
             /\ req[r].token = req'[p].token)
                => fake_users_db'[req[r].email].password
                        = req[r].password]_vars

C19_ConfirmChangesOnlyActiveFlag ==
    [][\A p \in Requests :
            (/\ req[p].pc = "idle"
             /\ req'[p].kind = "confirm"
             /\ req'[p].status = 200)
                => /\ DOMAIN fake_users_db' = DOMAIN fake_users_db
                   /\ \A e \in DOMAIN fake_users_db :
                        /\ fake_users_db'[e].email = fake_users_db[e].email
                        /\ fake_users_db'[e].password
                                = fake_users_db[e].password
                        /\ e # req'[p].token.payload
                                => fake_users_db'[e] = fake_users_db[e]]_vars

\* A confirm call has succeeded while another identity was registered, and
\* that other record is still pending.
C19_Witness ==
    \E p \in ConfirmRequests :
        /\ req[p].status = 200
        /\ fake_users_db[req[p].token.payload].is_active
        /\ \E o \in DOMAIN fake_users_db :
            /\ o # req[p].token.payload
            /\ ~fake_users_db[o].is_active

====
